---------------------------- MODULE Spec2Model ----------------------------
(***************************************************************************)
(* Model of the meme-template pipeline of src/scraper:                     *)
(*   - batch_annotate.py : the enrichment stage (main, process_single,     *)
(*     analyze_meme_with_gemini, atomic_write_json);                       *)
(*   - scraper.py        : the position-update stage                       *)
(*     (update_positions_bulk, update_positions_for_meme,                  *)
(*     load_existing_memes, write_memes) and the geometry transformer.     *)
(* Both stages read and write the same file memes.json.                    *)
(*                                                                         *)
(* Conventions.  A Python value that may be None or absent is a sequence   *)
(* of length 0 (None / absent) or 1 (the value).  A collection is a        *)
(* function from the keys 1..n, in the file's key order, to records.       *)
(***************************************************************************)
EXTENDS Integers, Sequences, FiniteSets, TLC

(***************************************************************************)
(* Bounds of the model.                                                    *)
(***************************************************************************)
\* number of records in the collection
NumKeys == 3
\* batch_size (batch_annotate.py:223) and concurrency (scraper.py:178), scaled down
BatchSize == 2
\* number of runs (process starts) explored
MaxRuns == 2
\* largest max_retries drawn for the retry loop
MaxRetriesBound == 3
\* longest list of text_descriptions drawn for process_single
MaxTds == 2

\* largest coordinate (left, top) of a drawn box
MaxCoord == 2
\* largest canvas, preview and image dimension drawn
MaxDim == 2
\* longest list of boxes drawn
MaxBoxes == 2

Keys == 1..NumKeys

None == <<>>
Some(x) == <<x>>

(***************************************************************************)
(* Records as the scraping stage creates them (scraper.py:517-538).        *)
(***************************************************************************)
Box(l, t, w, h) == [left |-> l, top |-> t, width |-> w, height |-> h]

\* number of Text Regions of record k: records of 1, 2 and 0 regions
NumRegions(k) == k % 3

ScrapedRegion(k, i) ==
    [position |-> Box(2 * i, 2 * k, 4, 2),
     description |-> Some(""),
     updated_position |-> None]

ScrapedRecord(k) ==
    [name |-> k,
     width |-> 4,
     image_description |-> None,
     has_updated_positions |-> FALSE,
     text_options |-> [i \in 1..NumRegions(k) |-> ScrapedRegion(k, i)]]

Fresh == [k \in Keys |-> ScrapedRecord(k)]

(***************************************************************************)
(* JSON values returned by the analysis service, as json.loads yields them.*)
(* A scalar is [t, n, d, s]: t is its JSON type, n/d its numeric value,    *)
(* s the characters of a string.                                           *)
(***************************************************************************)
JInt(n) == [t |-> "int", n |-> n, d |-> 1, s |-> <<>>]
JFloat(n, d) == [t |-> "float", n |-> n, d |-> d, s |-> <<>>]
JStr(s) == [t |-> "str", n |-> 0, d |-> 1, s |-> s]
JNull == [t |-> "null", n |-> 0, d |-> 1, s |-> <<>>]
JMissing == [t |-> "missing", n |-> 0, d |-> 1, s |-> <<>>]

Digits == <<"0", "1", "2", "3", "4", "5", "6", "7", "8", "9">>
IsDigit(c) == \E i \in 1..10 : Digits[i] = c
DigitVal(c) == (CHOOSE i \in 1..10 : Digits[i] = c) - 1

RECURSIVE DigitsVal(_, _)
DigitsVal(s, acc) ==
    IF s = <<>> THEN acc ELSE DigitsVal(Tail(s), 10 * acc + DigitVal(Head(s)))

\* int(str): optional sign followed by at least one decimal digit
PyIntOfStr(s) ==
    LET signed == s # <<>> /\ Head(s) \in {"-", "+"}
        body == IF signed THEN Tail(s) ELSE s
        ok == body # <<>> /\ \A i \in 1..Len(body) : IsDigit(body[i])
        mag == IF ok THEN DigitsVal(body, 0) ELSE 0
    IN [ok |-> ok, val |-> IF signed /\ Head(s) = "-" THEN 0 - mag ELSE mag]

\* truncation toward zero of n/d, d > 0
TruncDiv(n, d) == IF n >= 0 THEN n \div d ELSE 0 - ((0 - n) \div d)

\* int(td.get("index", -1)): the value, or that int() raised
PyInt(v) ==
    CASE v.t = "int" -> [ok |-> TRUE, val |-> v.n]
      [] v.t = "float" -> [ok |-> TRUE, val |-> TruncDiv(v.n, v.d)]
      [] v.t = "str" -> PyIntOfStr(v.s)
      [] v.t = "missing" -> [ok |-> TRUE, val |-> -1]
      [] OTHER -> [ok |-> FALSE, val |-> 0]


(***************************************************************************)
(* The parsed analysis result (json.loads(resp.text)).                     *)
(*   result : [kind, image_description, text_descriptions]                 *)
(*   kind "dict" is a JSON object, "other" any other JSON value;           *)
(*   a text field is [t, v] with t in "str", "null", "missing";            *)
(*   text_descriptions is [kind, n, items] with kind "list", "null",       *)
(*   "missing" or "number" (the number n).                                 *)
(***************************************************************************)
TStr(v) == [t |-> "str", v |-> v]
TNull == [t |-> "null", v |-> ""]
TMissing == [t |-> "missing", v |-> ""]

Td(index, description) == [kind |-> "dict", index |-> index, description |-> description]
TdOther == [kind |-> "other", index |-> JNull, description |-> TNull]

TdList(items) == [kind |-> "list", n |-> 0, items |-> items]
TdAbsent(kind) == [kind |-> kind, n |-> 0, items |-> <<>>]
TdNumber(n) == [kind |-> "number", n |-> n, items |-> <<>>]

ResultDict(image_description, text_descriptions) ==
    [kind |-> "dict", image_description |-> image_description,
     text_descriptions |-> text_descriptions]
ResultOther == [kind |-> "other", image_description |-> TNull,
                text_descriptions |-> TdAbsent("missing")]

\* d.get(key, ""): the default for an absent key, None for a JSON null
GetText(f) ==
    CASE f.t = "missing" -> Some("")
      [] f.t = "null" -> None
      [] OTHER -> Some(f.v)

(***************************************************************************)
(* analyze_meme_with_gemini: the retry loop.  env[a] is what the a-th call *)
(* of the service does: [ok, result].  Returns whether the loop raised,    *)
(* the result, the number of calls made and the sleeps taken, in order.    *)
(***************************************************************************)
\* defaults of analyze_meme_with_gemini
DefaultMaxRetries == 3
DefaultBackoff == 2

RECURSIVE Pow2(_)
Pow2(n) == IF n <= 0 THEN 1 ELSE 2 * Pow2(n - 1)

\* a loop that tries once more than max_retries
RECURSIVE RetryLoopOffByOne(_, _, _, _, _, _)
RetryLoopOffByOne(attempt, env, max_retries, backoff, calls, sleeps) ==
    IF attempt > max_retries + 1
    THEN [raised |-> TRUE, result |-> ResultOther, calls |-> calls, sleeps |-> sleeps]
    ELSE IF env[attempt].ok
         THEN [raised |-> FALSE, result |-> env[attempt].result,
               calls |-> calls + 1, sleeps |-> sleeps]
         ELSE IF attempt = max_retries + 1
              THEN [raised |-> TRUE, result |-> ResultOther,
                    calls |-> calls + 1, sleeps |-> sleeps]
              ELSE RetryLoopOffByOne(attempt + 1, env, max_retries, backoff, calls + 1,
                                     Append(sleeps, backoff * Pow2(attempt - 1)))

RECURSIVE RetryLoop(_, _, _, _, _, _)
RetryLoop(attempt, env, max_retries, backoff, calls, sleeps) ==
    IF attempt > max_retries
    THEN \* range exhausted without an attempt: "Unknown failure calling Gemini"
         [raised |-> TRUE, result |-> ResultOther, calls |-> calls, sleeps |-> sleeps]
    ELSE IF env[attempt].ok
         THEN [raised |-> FALSE, result |-> env[attempt].result,
               calls |-> calls + 1, sleeps |-> sleeps]
         ELSE IF attempt = max_retries
              THEN [raised |-> TRUE, result |-> ResultOther,
                    calls |-> calls + 1, sleeps |-> sleeps]
              ELSE RetryLoop(attempt + 1, env, max_retries, backoff, calls + 1,
                             Append(sleeps, backoff * Pow2(attempt - 1)))

analyze_meme_with_gemini(env, max_retries, backoff) ==
    RetryLoop(1, env, max_retries, backoff, 0, <<>>)

(***************************************************************************)
(* process_single, after the analysis returned `result`.                   *)
(***************************************************************************)
\* an iteration that replaces the region by one holding only position and description
ApplyTdRebuildsRegion(regions, td) ==
    IF td.kind # "dict" THEN regions
    ELSE LET idx == PyInt(td.index)
         IN IF ~idx.ok THEN regions
            ELSE IF 0 <= idx.val /\ idx.val < Len(regions)
                 THEN [regions EXCEPT ![idx.val + 1].description = GetText(td.description),
                                      ![idx.val + 1].updated_position = None]
                 ELSE regions

\* one iteration of the loop over text_descs: regions are 0-based in the code,
\* 1-based here
ApplyTd(regions, td) ==
    IF td.kind # "dict" THEN regions       \* td.get raises, caught: continue
    ELSE LET idx == PyInt(td.index)
         IN IF ~idx.ok THEN regions        \* int() raises, caught: continue
            ELSE IF 0 <= idx.val /\ idx.val < Len(regions)
                 THEN [regions EXCEPT ![idx.val + 1].description = GetText(td.description)]
                 ELSE regions

RECURSIVE ApplyTds(_, _)
ApplyTds(regions, tds) ==
    IF tds = <<>> THEN regions ELSE ApplyTds(ApplyTd(regions, Head(tds)), Tail(tds))

\* a processor that builds the returned record anew and drops the position marker
process_single_rebuilds(meme_data, result) ==
    IF result.kind # "dict"
    THEN [raised |-> TRUE, updated |-> meme_data]
    ELSE LET tds == result.text_descriptions
             text_descs == IF tds.kind = "list" THEN tds.items ELSE <<>>
         IN IF tds.kind = "number" /\ tds.n # 0
            THEN [raised |-> TRUE, updated |-> meme_data]
            ELSE [raised |-> FALSE,
                  updated |-> [meme_data EXCEPT
                      !.image_description = GetText(result.image_description),
                      !.has_updated_positions = FALSE,
                      !.text_options = ApplyTds(meme_data.text_options, text_descs)]]

\* [raised, updated]: updated is the returned record; its text_options is the list
\* object of meme_data itself (dict(meme_data) is a shallow copy)
process_single(meme_data, result) ==
    IF result.kind # "dict"
    THEN [raised |-> TRUE, updated |-> meme_data]          \* result.get: AttributeError
    ELSE LET tds == result.text_descriptions
             text_descs == IF tds.kind = "list" THEN tds.items ELSE <<>>
         IN IF tds.kind = "number" /\ tds.n # 0
            THEN [raised |-> TRUE, updated |-> meme_data]  \* for td in <number>: TypeError
            ELSE [raised |-> FALSE,
                  updated |-> [meme_data EXCEPT
                      !.image_description = GetText(result.image_description),
                      !.text_options = ApplyTds(meme_data.text_options, text_descs)]]

(***************************************************************************)
(* update_positions_for_meme.  page is what extract_page_data returned:    *)
(* [ok, preview_width, boxes] (ok FALSE: None); fetch is what              *)
(* fetch_image_and_size did: [ok, orig_w].                                 *)
(***************************************************************************)
\* Python round(): nearest integer, ties to even, of n/d with d > 0
RoundHalfEven(n, d) ==
    LET q == n \div d
        r == n - q * d
    IN IF 2 * r < d THEN q
       ELSE IF 2 * r > d THEN q + 1
       ELSE IF q % 2 = 0 THEN q ELSE q + 1

\* round(v * (num / den)), den # 0
RoundScaled(v, num, den) ==
    IF den > 0 THEN RoundHalfEven(v * num, den) ELSE RoundHalfEven(0 - v * num, 0 - den)

\* a scaling that leaves top and height as the preview gives them
ScaleUniformHorizontal(b, orig_w, preview_width) ==
    Box(RoundScaled(b.left, orig_w, preview_width),
        b.top,
        RoundScaled(b.width, orig_w, preview_width),
        b.height)

ScaleUniform(b, orig_w, preview_width) ==
    Box(RoundScaled(b.left, orig_w, preview_width),
        RoundScaled(b.top, orig_w, preview_width),
        RoundScaled(b.width, orig_w, preview_width),
        RoundScaled(b.height, orig_w, preview_width))

Min(a, b) == IF a < b THEN a ELSE b

\* a loop that keeps only the regions for which the page holds a box
ZipUpdateTruncates(regions, boxes, orig_w, preview_width) ==
    [i \in 1..Min(Len(boxes), Len(regions)) |->
        [regions[i] EXCEPT
            !.updated_position = Some(ScaleUniform(boxes[i], orig_w, preview_width))]]

\* the zip loop: region i gets the scaled i-th box, for as many as both lists hold
ZipUpdate(regions, boxes, orig_w, preview_width) ==
    [i \in DOMAIN regions |->
        IF i <= Min(Len(boxes), Len(regions))
        THEN [regions[i] EXCEPT
                 !.updated_position = Some(ScaleUniform(boxes[i], orig_w, preview_width))]
        ELSE regions[i]]

update_positions_for_meme(meme_data, page, fetch) ==
    IF ~page.ok THEN [raised |-> TRUE, updated |-> meme_data]     \* None.get
    ELSE IF ~fetch.ok THEN [raised |-> TRUE, updated |-> meme_data]
    ELSE IF page.preview_width = None
         THEN [raised |-> TRUE, updated |-> meme_data]            \* float(None)
    ELSE IF page.preview_width[1] = 0
         THEN [raised |-> TRUE, updated |-> meme_data]            \* division by zero
    ELSE [raised |-> FALSE,
          updated |-> [meme_data EXCEPT
              !.text_options = ZipUpdate(meme_data.text_options, page.boxes,
                                         fetch.orig_w, page.preview_width[1]),
              !.has_updated_positions = TRUE]]

(***************************************************************************)
(* scale_boxes_to_original.  canvas_size is <<canvas_w, canvas_h>>, each    *)
(* None or a number; original_size is <<orig_w, orig_h>>.                   *)
(***************************************************************************)
\* `not v`: None and 0 are false values
Falsy(v) == v = None \/ v[1] = 0

\* int(round(x)) of a number that is an integer already
IntRound(x) == RoundHalfEven(x, 1)

\* the boxes with every field scaled by the horizontal ratio
scale_boxes_one_ratio(boxes, canvas_size, original_size) ==
    LET canvas_w == canvas_size[1]
        canvas_h == canvas_size[2]
        orig_w == original_size[1]
    IN IF Falsy(canvas_w) \/ Falsy(canvas_h) \/ canvas_w[1] <= 0 \/ canvas_h[1] <= 0
       THEN [i \in DOMAIN boxes |->
                Box(IntRound(boxes[i].left), IntRound(boxes[i].top),
                    IntRound(boxes[i].width), IntRound(boxes[i].height))]
       ELSE [i \in DOMAIN boxes |->
                Box(RoundScaled(boxes[i].left, orig_w, canvas_w[1]),
                    RoundScaled(boxes[i].top, orig_w, canvas_w[1]),
                    RoundScaled(boxes[i].width, orig_w, canvas_w[1]),
                    RoundScaled(boxes[i].height, orig_w, canvas_w[1]))]

scale_boxes_to_original(boxes, canvas_size, original_size) ==
    LET canvas_w == canvas_size[1]
        canvas_h == canvas_size[2]
        orig_w == original_size[1]
        orig_h == original_size[2]
    IN \* the comparisons with 0 are evaluated only for numbers: `or` stops at the
       \* first true operand
       IF Falsy(canvas_w) \/ Falsy(canvas_h) \/ canvas_w[1] <= 0 \/ canvas_h[1] <= 0
       THEN [i \in DOMAIN boxes |->
                Box(IntRound(boxes[i].left), IntRound(boxes[i].top),
                    IntRound(boxes[i].width), IntRound(boxes[i].height))]
       ELSE [i \in DOMAIN boxes |->
                Box(RoundScaled(boxes[i].left, orig_w, canvas_w[1]),
                    RoundScaled(boxes[i].top, orig_h, canvas_h[1]),
                    RoundScaled(boxes[i].width, orig_w, canvas_w[1]),
                    RoundScaled(boxes[i].height, orig_h, canvas_h[1]))]

(***************************************************************************)
(* The state.                                                              *)
(***************************************************************************)
VARIABLES
    disk,        \* memes.json: [st, data], st in "missing", "corrupt", "ok"
    tmpfile,     \* memes.json.tmp: st in "missing", "partial", "ok"
    backup,      \* memes.backup.json
    btmp,        \* memes.backup.json.tmp
    runs,        \* number of runs started
    stage,       \* the running program: "none", "enrich" or "position"
    pc,          \* where the dispatcher is
    memes,       \* the dispatcher's in-memory collection
    pending,     \* keys_to_process / keys_to_update
    start,       \* offset of the current batch in pending
    wstate,      \* per key, its future: "idle", "running", "ok", "failed"
    wret,        \* per key, the record its worker returned
    collected,   \* keys whose future as_completed has yielded, this batch
    results,     \* position stage: the batch's results dict (None: key absent)
    processed,   \* enrichment: processed counter
    failures,    \* enrichment: len(failures)
    loadres,     \* what the load at the start of the run gave: "none", "raised", "empty", "data"
    loaded,      \* history: the collection as loaded by this run
    saves,       \* history: writes of memes.json completed in this run
    called,      \* history: keys for which this run called an external service
    ckpt,        \* history: the collection handed to the last completed save
    icpt,        \* history: stage and keys of the batch a crash interrupted
    fpc,         \* processor-level specifications: the step reached
    fin,         \* processor-level specifications: the inputs drawn
    fout         \* processor-level specifications: what the processor returned

vars == <<disk, tmpfile, backup, btmp, runs, stage, pc, memes, pending, start,
          wstate, wret, collected, results, processed, failures, loadres, loaded,
          saves, called, ckpt, icpt, fpc, fin, fout>>

fvars == <<fpc, fin, fout>>
files == <<disk, tmpfile, backup, btmp>>
workers == <<wstate, wret, collected, results>>
counters == <<processed, failures>>
history == <<loaded, saves, called, ckpt, icpt>>

FileMissing == [st |-> "missing", data |-> <<>>]
FileCorrupt == [st |-> "corrupt", data |-> <<>>]
FilePartial == [st |-> "partial", data |-> <<>>]
FileOk(c) == [st |-> "ok", data |-> c]

NoIcpt == [stage |-> "none", keys |-> {}]

\* the stage completion markers
Annotated(rec) == rec.image_description # None
Positioned(rec) == rec.has_updated_positions

\* a collection both stages have completed
Completed ==
    [k \in Keys |->
        [ScrapedRecord(k) EXCEPT
            !.image_description = Some("D"),
            !.has_updated_positions = TRUE,
            !.text_options = [i \in 1..NumRegions(k) |->
                [ScrapedRegion(k, i) EXCEPT
                    !.updated_position = Some(ScrapedRegion(k, i).position)]]]]

InitialFiles == {FileMissing, FileCorrupt, FileOk(Fresh), FileOk(Completed)}

Init ==
    /\ disk \in InitialFiles
    /\ tmpfile = FileMissing
    /\ backup = FileMissing
    /\ btmp = FileMissing
    /\ runs = 0
    /\ stage = "none"
    /\ pc = "idle"
    /\ memes = <<>>
    /\ pending = <<>>
    /\ start = 0
    /\ wstate = [k \in Keys |-> "idle"]
    /\ wret = [k \in Keys |-> None]
    /\ collected = {}
    /\ results = [k \in Keys |-> None]
    /\ processed = 0
    /\ failures = 0
    /\ loadres = "none"
    /\ loaded = <<>>
    /\ saves = 0
    /\ called = {}
    /\ ckpt = disk.data
    /\ icpt = NoIcpt
    /\ fpc = "none"
    /\ fin = <<>>
    /\ fout = <<>>

(***************************************************************************)
(* Selection of the pending keys and partition into batches.               *)
(***************************************************************************)
KeyOrder(c) == [i \in 1..Len(c) |-> i]

\* a selection that ignores the completion marker
keys_to_process_all(c) == KeyOrder(c)

\* [k for k, v in memes.items() if v.get("image_description") is None]
keys_to_process(c) == SelectSeq(KeyOrder(c), LAMBDA k : ~Annotated(c[k]))

\* [k for k, v in memes.items() if not v.get("has_updated_positions")]
keys_to_update(c) == SelectSeq(KeyOrder(c), LAMBDA k : ~Positioned(c[k]))

\* a slice that runs one item into the next batch
chunk_overlapping(items, i, chunk_size) ==
    SubSeq(items, i + 1, Min(i + chunk_size + 1, Len(items)))

\* items[i : i + chunk_size]
chunk(items, i, chunk_size) == SubSeq(items, i + 1, Min(i + chunk_size, Len(items)))

Range(f) == {f[i] : i \in DOMAIN f}

batch_keys == Range(chunk(pending, start, BatchSize))

(***************************************************************************)
(* What the external services may do for one item.                         *)
(***************************************************************************)
CallFails == [ok |-> FALSE, result |-> ResultOther]
CallReturns(r) == [ok |-> TRUE, result |-> r]

\* an object with a description and entries for region indices 0 and 5
ResultTwo ==
    ResultDict(TStr("D"), TdList(<<Td(JInt(0), TStr("A")), Td(JInt(5), TStr("B"))>>))
\* an object whose image_description is null
ResultNullDescription == ResultDict(TNull, TdList(<<>>))

\* behaviours of the analysis service over the calls made for one item
AnalysisEnvs ==
    {<<CallFails, CallFails, CallFails, CallFails>>,
     <<CallFails, CallFails, CallReturns(ResultTwo), CallFails>>,
     <<CallReturns(ResultTwo), CallFails, CallFails, CallFails>>,
     <<CallReturns(ResultNullDescription), CallFails, CallFails, CallFails>>,
     <<CallFails, CallReturns(ResultOther), CallFails, CallFails>>}

\* the boxes of record k as the rendered preview shows them, at half the image's size
PreviewBoxes(k) == [i \in 1..NumRegions(k) |-> Box(i, k, 2, 1)]

NoPage == [ok |-> FALSE, preview_width |-> None, boxes |-> <<>>]
Page(preview_width, boxes) == [ok |-> TRUE, preview_width |-> preview_width, boxes |-> boxes]

\* what extract_page_data may return for record k: no page, a page without a
\* preview width, with a preview width of 0, with every box, with the first box only
Pages(k) ==
    {NoPage,
     Page(None, PreviewBoxes(k)),
     Page(Some(0), PreviewBoxes(k)),
     Page(Some(2), PreviewBoxes(k)),
     Page(Some(2), SubSeq(PreviewBoxes(k), 1, Min(1, NumRegions(k))))}

\* what fetch_image_and_size may do
Fetches == {[ok |-> FALSE, orig_w |-> 0], [ok |-> TRUE, orig_w |-> 4]}

(***************************************************************************)
(* The process: start of a run, end of a run, crash.                       *)
(***************************************************************************)
Volatile ==
    /\ stage' = "none"
    /\ pc' = "idle"
    /\ memes' = <<>>
    /\ pending' = <<>>
    /\ start' = 0
    /\ wstate' = [k \in Keys |-> "idle"]
    /\ wret' = [k \in Keys |-> None]
    /\ collected' = {}
    /\ results' = [k \in Keys |-> None]
    /\ processed' = 0
    /\ failures' = 0
    /\ loadres' = "none"
    /\ loaded' = <<>>
    /\ saves' = 0
    /\ called' = {}

\* the fields a run sets when it starts, whatever the stage
Begin(st, c, pend, res, next) ==
    /\ runs' = runs + 1
    /\ stage' = st
    /\ memes' = c
    /\ loaded' = c
    /\ pending' = pend
    /\ loadres' = res
    /\ pc' = next
    /\ icpt' = NoIcpt
    /\ UNCHANGED <<fvars, files, start, workers, counters, saves, called, ckpt>>

\* with open(memes_path) ... json.load, after the existence check of main
LoadAnnotate ==
    IF disk.st = "ok" THEN [res |-> "data", data |-> disk.data]
    ELSE [res |-> "raised", data |-> <<>>]   \* FileNotFoundError, JSONDecodeError

\* an existence test that never finds the backup
backup_never_exists == FALSE

\* backup_path.exists()
backup_exists == backup.st # "missing"

\* batch_annotate.main up to the first batch
EStart ==
    /\ pc = "idle"
    /\ runs < MaxRuns
    /\ LET l == LoadAnnotate
           pend == keys_to_process(l.data)
       IN Begin("enrich", l.data, pend, l.res,
                IF l.res = "raised" THEN "aborted"
                ELSE IF pend = <<>> THEN "done"
                ELSE IF ~backup_exists THEN "backup_open"
                ELSE "submit")

\* load_existing_memes: {} for a missing file, and for one that cannot be read
load_existing_memes ==
    IF disk.st = "ok" THEN [res |-> "data", data |-> disk.data]
    ELSE [res |-> "empty", data |-> <<>>]

\* update_positions_bulk up to the first batch
PStart ==
    /\ pc = "idle"
    /\ runs < MaxRuns
    /\ LET l == load_existing_memes
           pend == keys_to_update(l.data)
       IN Begin("position", l.data, pend, IF l.data = <<>> THEN "empty" ELSE l.res,
                IF l.data = <<>> \/ pend = <<>> THEN "done" ELSE "submit")

\* where a run ends: the final report, or the exception of the load ("aborted"),
\* of the backup write or of a checkpoint write
Ended == {"done", "aborted", "backup_failed", "save_failed"}

\* the program returns, or ends with the exception that aborted it
Finish ==
    /\ pc \in Ended
    /\ Volatile
    /\ UNCHANGED <<fvars, files, runs, ckpt, icpt>>

\* the process is terminated
Crash ==
    /\ pc # "idle"
    /\ icpt' = IF pc \in {"collect", "merge", "save_open", "save_dump", "save_rename"}
               THEN [stage |-> stage, keys |-> batch_keys]
               ELSE NoIcpt
    /\ Volatile
    /\ UNCHANGED <<fvars, files, runs, ckpt>>

(***************************************************************************)
(* atomic_write_json / write_memes: open the temporary file, dump, replace.*)
(***************************************************************************)
\* open(tmp, "w"): the temporary file exists and holds nothing yet
WriteOpen(f) == FilePartial

\* a dump that stops before the end of the collection
WriteDumpTruncated(data) == FilePartial

\* json.dump(data, f) and close: the temporary file holds the whole collection
WriteDump(data) == FileOk(data)

\* the one-time backup of batch_annotate.main
BackupOpen ==
    /\ pc = "backup_open"
    /\ btmp' = WriteOpen(btmp)
    /\ pc' = "backup_dump"
    /\ UNCHANGED <<fvars, disk, tmpfile, backup, runs, stage, memes, pending, start,
                   workers, counters, loadres, history>>

BackupDump ==
    /\ pc = "backup_dump"
    /\ btmp' = WriteDump(memes)
    /\ pc' = "backup_rename"
    /\ UNCHANGED <<fvars, disk, tmpfile, backup, runs, stage, memes, pending, start,
                   workers, counters, loadres, history>>

BackupRename ==
    /\ pc = "backup_rename"
    /\ backup' = btmp
    /\ btmp' = FileMissing
    /\ pc' = "submit"
    /\ UNCHANGED <<fvars, disk, tmpfile, runs, stage, memes, pending, start,
                   workers, counters, loadres, history>>

(***************************************************************************)
(* One batch: submit, the workers, collection of the futures.              *)
(***************************************************************************)
\* executor.submit for every key of the batch
Submit ==
    /\ pc = "submit"
    /\ wstate' = [k \in Keys |-> IF k \in batch_keys THEN "running" ELSE wstate[k]]
    /\ collected' = {}
    /\ results' = [k \in Keys |-> None]
    /\ pc' = "collect"
    /\ UNCHANGED <<fvars, files, runs, stage, memes, pending, start, wret,
                   counters, loadres, history>>

\* a worker of the enrichment stage: process_single on memes[key]
EWorker(k) ==
    /\ stage = "enrich"
    /\ wstate[k] = "running"
    /\ \E env \in AnalysisEnvs :
          LET a == analyze_meme_with_gemini(env, DefaultMaxRetries, DefaultBackoff)
              p == process_single(memes[k], a.result)
          IN IF a.raised \/ p.raised
             THEN /\ wstate' = [wstate EXCEPT ![k] = "failed"]
                  /\ UNCHANGED <<memes, wret>>
             ELSE /\ wstate' = [wstate EXCEPT ![k] = "ok"]
                  /\ wret' = [wret EXCEPT ![k] = Some(p.updated)]
                  \* the region dicts written are those of memes[key] itself
                  /\ memes' = [memes EXCEPT ![k].text_options = p.updated.text_options]
    /\ called' = called \cup {k}
    /\ UNCHANGED <<fvars, files, runs, stage, pc, pending, start, collected, results,
                   counters, loadres, loaded, saves, ckpt, icpt>>

\* a worker of the position stage: _update_one on a deep copy of memes[key]
PWorker(k) ==
    /\ stage = "position"
    /\ wstate[k] = "running"
    /\ \E page \in Pages(k), fetch \in Fetches :
          LET local == memes[k]
              u == update_positions_for_meme(local, page, fetch)
          IN IF u.raised
             THEN /\ wstate' = [wstate EXCEPT ![k] = "failed"]
                  /\ UNCHANGED wret
             ELSE /\ wstate' = [wstate EXCEPT ![k] = "ok"]
                  /\ wret' = [wret EXCEPT ![k] = Some(u.updated)]
    /\ called' = called \cup {k}
    /\ UNCHANGED <<fvars, files, runs, stage, pc, memes, pending, start, collected, results,
                   counters, loadres, loaded, saves, ckpt, icpt>>

\* memes[key] = updated
MergeOk(c, k, rec) == [c EXCEPT ![k] = rec]

\* a failure handler that stores a record marked as done
MergeFailedMarksDone(c, k) ==
    [c EXCEPT ![k].image_description = Some(""), ![k].has_updated_positions = TRUE]

\* the except branch: the record at the key stays as it is
MergeFailed(c, k) == c

\* a collection loop without the try/except around fut.result()
ECollectRaises(k) ==
    /\ stage = "enrich"
    /\ pc = "collect"
    /\ k \in batch_keys \ collected
    /\ wstate[k] \in {"ok", "failed"}
    /\ collected' = collected \cup {k}
    /\ IF wstate[k] = "ok"
       THEN /\ memes' = MergeOk(memes, k, wret[k][1])
            /\ processed' = processed + 1
            /\ UNCHANGED <<failures, pc>>
       ELSE /\ pc' = "aborted"
            /\ UNCHANGED <<memes, processed, failures>>
    /\ UNCHANGED <<fvars, files, runs, stage, pending, start, wstate, wret, results,
                   loadres, history>>

\* a collection loop that stores only the record of the future that completes first
ECollectFirstWins(k) ==
    /\ stage = "enrich"
    /\ pc = "collect"
    /\ k \in batch_keys \ collected
    /\ wstate[k] \in {"ok", "failed"}
    /\ collected' = collected \cup {k}
    /\ IF wstate[k] = "ok"
       THEN /\ memes' = IF collected = {} THEN MergeOk(memes, k, wret[k][1]) ELSE memes
            /\ processed' = processed + 1
            /\ UNCHANGED failures
       ELSE /\ memes' = MergeFailed(memes, k)
            /\ failures' = failures + 1
            /\ UNCHANGED processed
    /\ UNCHANGED <<fvars, files, runs, stage, pc, pending, start, wstate, wret, results,
                   loadres, history>>

\* one iteration of `for fut in as_completed(futures)` of batch_annotate.main
ECollect(k) ==
    /\ stage = "enrich"
    /\ pc = "collect"
    /\ k \in batch_keys \ collected
    /\ wstate[k] \in {"ok", "failed"}
    /\ collected' = collected \cup {k}
    /\ IF wstate[k] = "ok"
       THEN /\ memes' = MergeOk(memes, k, wret[k][1])
            /\ processed' = processed + 1
            /\ UNCHANGED failures
       ELSE /\ memes' = MergeFailed(memes, k)
            /\ failures' = failures + 1
            /\ UNCHANGED processed
    /\ UNCHANGED <<fvars, files, runs, stage, pc, pending, start, wstate, wret, results,
                   loadres, history>>

\* a collection loop of update_positions_bulk without the try/except
PCollectRaises(k) ==
    /\ stage = "position"
    /\ pc = "collect"
    /\ k \in batch_keys \ collected
    /\ wstate[k] \in {"ok", "failed"}
    /\ collected' = collected \cup {k}
    /\ IF wstate[k] = "ok"
       THEN /\ results' = [results EXCEPT ![k] = wret[k]]
            /\ UNCHANGED pc
       ELSE /\ pc' = "aborted"
            /\ UNCHANGED results
    /\ UNCHANGED <<fvars, files, runs, stage, memes, pending, start, wstate, wret,
                   counters, loadres, history>>

\* one iteration of `for fut in as_completed(futures)` of update_positions_bulk
PCollect(k) ==
    /\ stage = "position"
    /\ pc = "collect"
    /\ k \in batch_keys \ collected
    /\ wstate[k] \in {"ok", "failed"}
    /\ collected' = collected \cup {k}
    /\ results' = [results EXCEPT ![k] =
                      IF wstate[k] = "ok" THEN wret[k] ELSE Some(MergeFailed(memes, k)[k])]
    /\ UNCHANGED <<fvars, files, runs, stage, pc, memes, pending, start, wstate, wret,
                   counters, loadres, history>>

\* the dispatcher leaves the executor's with-block before every future is done
BarrierIgnored == collected # {}

\* leaving `with ThreadPoolExecutor`: every future was yielded, every worker is done
Barrier ==
    /\ collected = batch_keys
    /\ \A k \in batch_keys : wstate[k] \in {"ok", "failed"}

\* a dispatcher that writes only after a batch with a success
EBatchEndSkipsWrite ==
    /\ stage = "enrich"
    /\ pc = "collect"
    /\ Barrier
    /\ IF \A k \in batch_keys : wstate[k] = "failed"
       THEN /\ start' = start + BatchSize
            /\ pc' = IF start + BatchSize < Len(pending) THEN "submit" ELSE "done"
       ELSE /\ pc' = "save_open"
            /\ UNCHANGED start
    /\ UNCHANGED <<fvars, files, runs, stage, memes, pending, workers,
                   counters, loadres, history>>

\* batch_annotate.main: the with-block ends, the write follows
EBatchEnd ==
    /\ stage = "enrich"
    /\ pc = "collect"
    /\ Barrier
    /\ pc' = "save_open"
    /\ UNCHANGED <<fvars, files, runs, stage, memes, pending, start, workers,
                   counters, loadres, history>>

\* update_positions_bulk: memes.update(results)
PMerge ==
    /\ stage = "position"
    /\ pc = "collect"
    /\ Barrier
    /\ memes' = [k \in DOMAIN memes |->
                    IF results[k] # None THEN MergeOk(memes, k, results[k][1])[k]
                    ELSE memes[k]]
    /\ pc' = "save_open"
    /\ UNCHANGED <<fvars, files, runs, stage, pending, start, workers,
                   counters, loadres, history>>

(***************************************************************************)
(* The checkpoint write of memes.json after a batch.                       *)
(***************************************************************************)
\* a write that opens memes.json itself, not a temporary file
SaveOpenInPlace ==
    /\ pc = "save_open"
    /\ disk' = WriteOpen(disk)
    /\ pc' = "save_dump"
    /\ UNCHANGED <<fvars, tmpfile, backup, btmp, runs, stage, memes, pending, start,
                   workers, counters, loadres, history>>

SaveOpen ==
    /\ pc = "save_open"
    /\ tmpfile' = WriteOpen(tmpfile)
    /\ pc' = "save_dump"
    /\ UNCHANGED <<fvars, disk, backup, btmp, runs, stage, memes, pending, start,
                   workers, counters, loadres, history>>

SaveDump ==
    /\ pc = "save_dump"
    /\ tmpfile' = WriteDump(memes)
    /\ pc' = "save_rename"
    /\ UNCHANGED <<fvars, disk, backup, btmp, runs, stage, memes, pending, start,
                   workers, counters, loadres, history>>

\* the next iteration of the loop over the batches, or its end
NextBatch(i) == IF i < Len(pending) THEN "submit" ELSE "done"

\* os.replace(tmp, path), then the next batch
SaveRename ==
    /\ pc = "save_rename"
    /\ disk' = tmpfile
    /\ tmpfile' = FileMissing
    /\ ckpt' = memes
    /\ saves' = saves + 1
    /\ start' = start + BatchSize
    /\ pc' = NextBatch(start + BatchSize)
    /\ UNCHANGED <<fvars, backup, btmp, runs, stage, memes, pending, workers,
                   counters, loadres, loaded, called, icpt>>

Next ==
    \/ EStart
    \/ PStart
    \/ BackupOpen
    \/ BackupDump
    \/ BackupRename
    \/ Submit
    \/ \E k \in Keys : EWorker(k)
    \/ \E k \in Keys : PWorker(k)
    \/ \E k \in Keys : ECollect(k)
    \/ \E k \in Keys : PCollect(k)
    \/ EBatchEnd
    \/ PMerge
    \/ SaveOpen
    \/ SaveDump
    \/ SaveRename
    \/ Finish
    \/ Crash

Spec == Init /\ [][Next]_vars

(***************************************************************************)
(* Properties of the dispatchers.                                          *)
(***************************************************************************)
\* the completion marker of the stage that is running
Marked(st, rec) == IF st = "enrich" THEN Annotated(rec) ELSE Positioned(rec)

\* a run that loaded a collection
Loaded == stage # "none" /\ loadres = "data"

\* number of batches that n items make
BatchesOf(n) == (n + BatchSize - 1) \div BatchSize

Dispatched == {k \in Keys : wstate[k] # "idle"}
Finished == {k \in Keys : wstate[k] \in {"ok", "failed"}}

\* C1: a run of a stage on a collection whose every record carries that stage's
\* completion marker goes straight to its end: it calls no external service and
\* writes no file (memes.json, the backup and the temporary files stay as they are),
\* at every run.
C1_Idempotent ==
    [][(/\ stage' # "none"
        /\ loadres' = "data"
        /\ \A k \in DOMAIN loaded' : Marked(stage', loaded'[k]))
       => /\ files' = files
          /\ called' = {}
          /\ saves' = 0
          /\ Dispatched' = {}
          /\ pc' = "done"]_vars

\* a second run that finds everything the first run completed
C1_Witness ==
    /\ runs = 2
    /\ stage = "position"
    /\ pc = "done"
    /\ loadres = "data"
    /\ \A k \in DOMAIN loaded : Positioned(loaded[k]) /\ ~Annotated(loaded[k])

C2_Persisted ==
    /\ disk.st # "partial"
    /\ disk.data = ckpt
    /\ Loaded =>
         /\ saves = 0 => loaded = ckpt
         /\ Range(pending) = {k \in DOMAIN loaded : ~Marked(stage, loaded[k])}
         /\ \A k \in DOMAIN loaded :
               Marked(stage, loaded[k]) => wstate[k] = "idle" /\ disk.data[k] = loaded[k]

C2_Restart ==
    [][(pc = "idle" /\ pc' # "idle" /\ stage' = icpt.stage)
       => loadres' = "data" /\ icpt.keys \subseteq Range(pending')]_vars

\* C2: at every point of a run memes.json holds the collection handed to the last
\* completed checkpoint (the initial collection before the first one); a run selects
\* exactly the keys whose marker is unset in the collection it loaded, which is that
\* snapshot; keys whose marker is set there are not dispatched and their persisted
\* records do not change during the run; the keys of a batch that a crash
\* interrupted are selected again by the next run of the stage.
C2_CrashRecovery == []C2_Persisted /\ C2_Restart

\* a restarted enrichment run: an earlier run checkpointed a batch and was terminated
\* while writing the next checkpoint, and the restarted run has workers in flight
C2_Witness ==
    /\ runs = 2
    /\ stage = "enrich"
    /\ pc = "collect"
    /\ tmpfile.st = "partial"
    /\ \E k \in DOMAIN loaded : Annotated(loaded[k])
    /\ \E k \in Keys : wstate[k] = "running"

\* C3: workers are in flight only while the dispatcher collects their own batch;
\* while workers are in flight every earlier batch is finished and checkpointed;
\* no worker runs while a checkpoint is written.
C3_Barrier ==
    /\ \A k \in Keys : wstate[k] = "running" => k \in batch_keys /\ pc = "collect"
    /\ (\E k \in Keys : wstate[k] = "running") =>
          /\ saves = BatchesOf(start)
          /\ \A i \in 1..start :
                /\ wstate[pending[i]] \in {"ok", "failed"}
                /\ disk.data[pending[i]] = memes[pending[i]]
    /\ pc \in {"save_open", "save_dump", "save_rename", "submit"} =>
          \A k \in Keys : wstate[k] # "running"

\* the workers of a second batch in flight
C3_Witness ==
    /\ pc = "collect"
    /\ start > 0
    /\ saves = 1
    /\ \E k \in Keys : wstate[k] = "running"
    /\ \E k \in Keys : wstate[k] = "failed"

\* C4: between two batches and at the end of a run, one save was completed per
\* finished batch, memes.json equals the in-memory collection, and that is the
\* loaded collection with the returned record of every successful item merged in.
C4_Checkpoint ==
    (Loaded /\ pc \in {"submit", "done"}) =>
        /\ saves = BatchesOf(Cardinality(Finished))
        /\ disk = FileOk(memes)
        /\ memes = [k \in DOMAIN loaded |->
                       IF wstate[k] = "ok" THEN wret[k][1] ELSE loaded[k]]

\* a run of two batches whose first batch failed as a whole
C4_Witness ==
    /\ stage = "enrich"
    /\ pc = "done"
    /\ saves = 2
    /\ \A k \in Range(chunk(pending, 0, BatchSize)) : wstate[k] = "failed"
    /\ \E k \in Keys : wstate[k] = "ok" /\ Annotated(memes[k])

\* C5: the record of an item whose processor failed equals, in memory and in
\* memes.json, the record as loaded, and its completion marker is unset.
C5_FailedUnchanged ==
    \A k \in Keys :
        wstate[k] = "failed" =>
            /\ memes[k] = loaded[k]
            /\ disk.data[k] = loaded[k]
            /\ ~Marked(stage, memes[k])

\* a finished position run with a failed and a successful item
C5_Witness ==
    /\ stage = "position"
    /\ pc = "done"
    /\ saves >= 1
    /\ \E k \in Keys : wstate[k] = "failed"
    /\ \E k \in Keys : wstate[k] = "ok"

\* C6: a run aborts only when the load raised; a run that loaded a collection
\* ends with every pending key dispatched and finished, one checkpoint per batch,
\* every successful item's record merged and persisted, and, in enrichment,
\* processed + failures = number of pending keys.
C6_NoEscalation ==
    /\ pc = "aborted" => loadres = "raised"
    /\ (Loaded /\ pc = "done") =>
          /\ \A i \in DOMAIN pending : wstate[pending[i]] \in {"ok", "failed"}
          /\ saves = BatchesOf(Len(pending))
          /\ \A k \in Keys :
                wstate[k] = "ok" => memes[k] = wret[k][1] /\ disk.data[k] = wret[k][1]
          /\ stage = "enrich" => processed + failures = Len(pending)

\* an enrichment run of two batches that ended with a failure in the first batch
C6_Witness ==
    /\ stage = "enrich"
    /\ pc = "done"
    /\ Len(pending) > BatchSize
    /\ wstate[pending[1]] = "failed"
    /\ wstate[pending[2]] = "ok"
    /\ failures >= 1
    /\ processed >= 2

HasAllGeometry(c) ==
    \A k \in DOMAIN c :
        c[k].has_updated_positions =>
            \A i \in DOMAIN c[k].text_options :
                c[k].text_options[i].updated_position # None

\* C7: no record, in memory or in memes.json, has has_updated_positions set while one
\* of its Text Regions lacks updated_position.
C7_NoPartialGeometry == HasAllGeometry(memes) /\ HasAllGeometry(disk.data)

\* C10: a load of a file that exists and cannot be read raises and aborts the run,
\* in both stages; the loader of the record store (load_existing_memes, used by the
\* position stage) gives the empty mapping only for a missing file.  (The
\* enrichment program checks the file's existence itself and ends with an error
\* when it is missing.)
C10_LoadContract ==
    (stage # "none" /\ saves = 0) =>
        /\ disk.st = "corrupt" => loadres = "raised" /\ pc = "aborted"
        /\ (stage = "position" /\ loadres = "empty") => disk.st = "missing"

C11_Canonical == disk.st # "partial" /\ backup.st # "partial"

C11_Replace ==
    [][/\ disk' # disk =>
            /\ pc = "save_rename"
            /\ tmpfile = FileOk(memes)
            /\ disk' = tmpfile
       /\ backup' # backup =>
            /\ pc = "backup_rename"
            /\ btmp = FileOk(memes)
            /\ backup' = btmp]_vars

\* C11: memes.json and the backup never hold partial content, whatever the step at
\* which the process is terminated; each changes only in the replace step of a
\* write, from the previous complete snapshot to the complete new one that the
\* temporary file holds; partial content exists only in the temporary files.
C11_AtomicSave == []C11_Canonical /\ C11_Replace

\* a position run terminated between the dump and the replace of its second
\* checkpoint: the temporary file holds the new snapshot, memes.json the previous one
C11_Witness ==
    /\ pc = "idle"
    /\ runs >= 1
    /\ tmpfile.st = "ok"
    /\ disk.st = "ok"
    /\ tmpfile.data # disk.data
    /\ \E k \in Keys : Positioned(disk.data[k]) /\ ~Annotated(disk.data[k])
    /\ \E k \in Keys : ~Positioned(disk.data[k])

C12_Written == (stage = "enrich" /\ Dispatched # {}) => backup.st = "ok"

C12_Once ==
    [][backup' # backup =>
          /\ backup.st = "missing"
          /\ stage = "enrich"
          /\ backup' = FileOk(loaded)
          /\ memes = loaded
          /\ saves = 0
          /\ called = {}
          /\ Dispatched = {}]_vars

\* C12: the backup changes only when it does not exist, so it is written at most
\* once over all runs and never overwritten; it is written by an enrichment run
\* before any worker of that run is dispatched, and holds the collection as that run
\* loaded it; an enrichment run has no worker dispatched without a backup in place.
C12_BackupOnce == []C12_Written /\ C12_Once

\* a second enrichment run with workers in flight, which found the backup of the
\* first run and loaded a collection the first run had changed
C12_Witness ==
    /\ runs = 2
    /\ stage = "enrich"
    /\ pc = "collect"
    /\ backup.st = "ok"
    /\ backup.data # loaded
    /\ \E k \in Keys : wstate[k] = "running"

\* the keys of c, and the Text Regions of each record, are those scraping created
SameShape(c) ==
    /\ DOMAIN c = Keys
    /\ \A k \in Keys :
          /\ c[k].name = k
          /\ DOMAIN c[k].text_options = 1..NumRegions(k)
          /\ \A i \in 1..NumRegions(k) :
                c[k].text_options[i].position = ScrapedRegion(k, i).position

\* C13: the collection in memory, in memes.json, in a complete temporary file and
\* in the backup, and every record a worker returned, has the keys that scraping
\* created, each record under its own key, and each record's text_options has the
\* length and the order it was created with.
C13_ShapePreserved ==
    /\ Loaded => SameShape(memes)
    /\ disk.st = "ok" => SameShape(disk.data)
    /\ tmpfile.st = "ok" => SameShape(tmpfile.data)
    /\ backup.st = "ok" => SameShape(backup.data)
    /\ \A k \in Keys :
          wret[k] # None =>
              /\ wret[k][1].name = k
              /\ DOMAIN wret[k][1].text_options = 1..NumRegions(k)

\* a position run after an enrichment run, ended with a failed item and with a
\* record of two regions that both stages rewrote, one region without a box
C13_Witness ==
    /\ runs = 2
    /\ stage = "position"
    /\ pc = "done"
    /\ \E k \in Keys : wstate[k] = "failed"
    /\ \E k \in Keys :
          /\ NumRegions(k) = 2
          /\ Annotated(disk.data[k]) /\ Positioned(disk.data[k])
          /\ disk.data[k].text_options[1].description = Some("A")
          /\ disk.data[k].text_options[1].updated_position # None
          /\ disk.data[k].text_options[2].updated_position = None

MarkersKept(c, d) ==
    /\ DOMAIN d = DOMAIN c
    /\ \A k \in DOMAIN c :
          /\ Annotated(c[k]) => Annotated(d[k])
          /\ Positioned(c[k]) => Positioned(d[k])

\* C14: at every step, a record of memes.json whose image_description is non-null
\* or whose has_updated_positions is set keeps that marker, and memes.json stays a
\* readable collection; the same holds for the in-memory collection during a run.
C14_MarkersMonotonic ==
    [][/\ disk.st = "ok" => (disk'.st = "ok" /\ MarkersKept(disk.data, disk'.data))
       /\ (Loaded /\ Loaded' /\ runs' = runs) => MarkersKept(memes, memes')]_vars

\* an enrichment run on a collection that a position run had marked: a record has
\* both markers in memes.json, and another item of the run failed
C14_Witness ==
    /\ runs = 2
    /\ stage = "enrich"
    /\ saves >= 1
    /\ \E k \in Keys : wstate[k] = "failed"
    /\ \E k \in Keys :
          /\ Positioned(loaded[k]) /\ ~Annotated(loaded[k])
          /\ Positioned(disk.data[k]) /\ Annotated(disk.data[k])

\* the dispatcher has not yet merged the outcome of item k
Unmerged(k) ==
    \/ wstate[k] \in {"idle", "running"}
    \/ /\ pc = "collect"
       /\ k \in batch_keys
       /\ (stage = "position" \/ k \notin collected)

\* C19: until the dispatcher merges the outcome of an item, the record at its key
\* in the in-memory collection, nested Text Regions included, equals the record as
\* loaded (its value before the batch).
C19_PrivateCopies ==
    Loaded => \A k \in DOMAIN memes : Unmerged(k) => memes[k] = loaded[k]

\* a record without the contents of its Text Regions
Fields(rec) == [rec EXCEPT !.text_options = <<>>]

\* C20: while a worker of the current batch is running, every record of the
\* in-memory collection has the fields it had before the batch (those handed to the
\* last checkpoint, or loaded); the contents of the Text Regions, which C19 is
\* about, are left out of the comparison.
C20_MergeBehindBarrier ==
    (Loaded /\ \E k \in Keys : wstate[k] = "running") =>
        \A k \in DOMAIN memes : Fields(memes[k]) = Fields(ckpt[k])

\* C21: a record of the in-memory collection carries the completion marker of the
\* running stage only when memes.json already holds that record as it is in memory
\* (the marker and the mutation it stands for); a record of memes.json carries a
\* marker only in a complete snapshot.
C21_MarkerAfterPersist ==
    /\ disk.st # "partial"
    /\ Loaded =>
          \A k \in DOMAIN memes :
              Marked(stage, memes[k]) => (disk.st = "ok" /\ disk.data[k] = memes[k])

\* the number of pending keys handed to workers so far in the run
HandedOut ==
    IF pc = "done" THEN Len(pending)
    ELSE IF pc \in {"collect", "save_open", "save_dump", "save_rename"}
         THEN Min(start + BatchSize, Len(pending))
    ELSE start

\* C23: in a run that loaded a collection, the pending keys are exactly the keys
\* whose marker of the stage is unset in the loaded collection, in collection order
\* and without repetition; batches start at multiples of the batch size, the
\* current batch is the next stretch of pending keys, of the batch size or, for the
\* last batch, of what is left (at least one key); the keys handed to workers so far
\* are exactly those of the batches up to the current one, a key is idle when its
\* batch is submitted (so it is handed out once), and at the end of the run every
\* pending key, and no other key, has been handed to a worker.
C23_Partition ==
    Loaded =>
        /\ Range(pending) = {k \in DOMAIN loaded : ~Marked(stage, loaded[k])}
        /\ \A i, j \in DOMAIN pending : i < j => pending[i] < pending[j]
        /\ start % BatchSize = 0
        /\ Dispatched = {pending[i] : i \in 1..HandedOut}
        /\ pc \in {"submit", "collect", "save_open", "save_dump", "save_rename"} =>
              /\ start < Len(pending)
              /\ batch_keys = {pending[i] : i \in (start + 1)..Min(start + BatchSize,
                                                                  Len(pending))}
              /\ Cardinality(batch_keys) = Min(BatchSize, Len(pending) - start)
        /\ pc = "submit" => \A k \in batch_keys : wstate[k] = "idle"
        /\ pc = "done" => start >= Len(pending)

\* the second and last batch of a run in flight, shorter than the first
C23_Witness ==
    /\ Loaded
    /\ pc = "collect"
    /\ start = BatchSize
    /\ Cardinality(batch_keys) < BatchSize
    /\ \A k \in batch_keys : wstate[k] = "running"
    /\ \E k \in Keys : wstate[k] = "failed"

\* C24: at the end of a run that loaded a collection, every item whose processor
\* returned successfully in the run has the completion marker of the stage set in
\* the snapshot on disk (so the next run of the stage does not select it again).
C24_SuccessCompletes ==
    (Loaded /\ pc = "done") =>
        \A k \in Keys :
            wstate[k] = "ok" => (disk.st = "ok" /\ Marked(stage, disk.data[k]))

\* the per-item outcomes of the run so far: the collection they determine
OutcomeCollection ==
    [k \in DOMAIN loaded |-> IF wstate[k] = "ok" THEN wret[k][1] ELSE loaded[k]]

\* the keys whose outcome the dispatcher has taken from its future
Counted ==
    {k \in Dispatched : ~(pc = "collect" /\ k \in batch_keys \ collected)}

\* the record a worker returned is that of its processor on the loaded record
ReturnedFromLoaded(k) ==
    IF stage = "enrich"
    THEN \E env \in AnalysisEnvs :
            LET a == analyze_meme_with_gemini(env, DefaultMaxRetries, DefaultBackoff)
                p == process_single(loaded[k], a.result)
            IN ~a.raised /\ ~p.raised /\ wret[k][1] = p.updated
    ELSE \E page \in Pages(k), fetch \in Fetches :
            LET u == update_positions_for_meme(loaded[k], page, fetch)
            IN ~u.raised /\ wret[k][1] = u.updated

\* C25: what a batch leaves behind is a function of the per-item outcomes alone,
\* whatever the order in which its workers ran and were collected: the record a
\* worker returns depends only on the loaded record of its key and on the external
\* answers; after the batch the in-memory collection is the loaded collection with
\* the returned record at every successful key, the snapshot written and then
\* persisted at the checkpoint is that collection, and the processed and failure
\* counts of the enrichment stage are the numbers of successful and failed items
\* among those collected so far.
C25_OrderIndependence ==
    Loaded =>
        /\ \A k \in Keys : wstate[k] = "ok" => ReturnedFromLoaded(k)
        /\ pc \in {"save_open", "save_dump", "save_rename"} => memes = OutcomeCollection
        /\ pc = "save_rename" => tmpfile = FileOk(OutcomeCollection)
        /\ (pc \in {"submit", "done"} /\ saves > 0) => disk = FileOk(OutcomeCollection)
        /\ stage = "enrich" =>
              /\ processed = Cardinality({k \in Counted : wstate[k] = "ok"})
              /\ failures = Cardinality({k \in Counted : wstate[k] = "failed"})

\* the futures of a batch collected against the order of submission: the later
\* key, a success, is merged and counted while the earlier key's failure waits
C25_Witness ==
    /\ Loaded
    /\ stage = "enrich"
    /\ pc = "collect"
    /\ Len(pending) >= start + 2
    /\ collected = {pending[start + 2]}
    /\ wstate[pending[start + 2]] = "ok"
    /\ wstate[pending[start + 1]] = "failed"
    /\ memes[pending[start + 2]] = wret[pending[start + 2]][1]
    /\ processed = 1
    /\ failures = 0

\* rec with the fields the enrichment stage writes taken from old
WithoutEnrichment(rec, old) ==
    [rec EXCEPT !.image_description = old.image_description,
                !.text_options = [j \in DOMAIN rec.text_options |->
                    [rec.text_options[j] EXCEPT
                        !.description = old.text_options[j].description]]]

\* rec with the fields the position stage writes taken from old
WithoutPositions(rec, old) ==
    [rec EXCEPT !.has_updated_positions = old.has_updated_positions,
                !.text_options = [j \in DOMAIN rec.text_options |->
                    [rec.text_options[j] EXCEPT
                        !.updated_position = old.text_options[j].updated_position]]]

\* rec differs from old at most in the fields the stage st writes
StageFrame(st, rec, old) ==
    /\ DOMAIN rec.text_options = DOMAIN old.text_options
    /\ IF st = "enrich" THEN WithoutEnrichment(rec, old) = old
       ELSE WithoutPositions(rec, old) = old

\* C26: in a run that loaded a collection, the record a worker returned, the record
\* at every key of the in-memory collection and the record at every key of
\* memes.json differ from the loaded record at most in the fields of the running
\* stage (enrichment: image_description and the description of Text Regions;
\* position: has_updated_positions and the updated_position of Text Regions), with
\* the same number of Text Regions; a record whose key is not pending equals the
\* loaded record; and while a batch is collected and written, the records outside
\* the batch are those of the last checkpoint.
C26_StageFrame ==
    Loaded =>
        /\ \A k \in Keys :
              /\ wstate[k] = "ok" => StageFrame(stage, wret[k][1], loaded[k])
              /\ StageFrame(stage, memes[k], loaded[k])
              /\ disk.st = "ok" => StageFrame(stage, disk.data[k], loaded[k])
              /\ k \notin Range(pending) => memes[k] = loaded[k]
        /\ pc \in {"collect", "save_open", "save_dump", "save_rename"} =>
              \A k \in Keys \ batch_keys : memes[k] = ckpt[k]

\* an enrichment that wrote a region description into a record the position stage
\* had completed, merged and persisted with the positions in place
C26_Witness ==
    /\ Loaded
    /\ stage = "enrich"
    /\ pc = "done"
    /\ \E k \in Keys :
          /\ wstate[k] = "ok"
          /\ Positioned(loaded[k])
          /\ \E j \in DOMAIN loaded[k].text_options :
                /\ loaded[k].text_options[j].updated_position # None
                /\ disk.data[k].text_options[j].description
                       # loaded[k].text_options[j].description
          /\ Annotated(disk.data[k])
          /\ disk.data[k] = memes[k]

(***************************************************************************)
(* The enrichment processor for one item, with max_retries drawn:          *)
(* analyze_meme_with_gemini, process_single, and the dispatcher's          *)
(* collection of the future.                                               *)
(***************************************************************************)
mainvars == <<disk, tmpfile, backup, btmp, runs, stage, pc, memes, pending, start,
              wstate, wret, collected, results, processed, failures, loadres, loaded,
              saves, called, ckpt, icpt>>

\* the main variables of a dispatcher that is not running
InitIdle ==
    /\ disk = FileOk(Fresh)
    /\ tmpfile = FileMissing
    /\ backup = FileMissing
    /\ btmp = FileMissing
    /\ runs = 0
    /\ stage = "none"
    /\ pc = "idle"
    /\ memes = <<>>
    /\ pending = <<>>
    /\ start = 0
    /\ wstate = [k \in Keys |-> "idle"]
    /\ wret = [k \in Keys |-> None]
    /\ collected = {}
    /\ results = [k \in Keys |-> None]
    /\ processed = 0
    /\ failures = 0
    /\ loadres = "none"
    /\ loaded = <<>>
    /\ saves = 0
    /\ called = {}
    /\ ckpt = disk.data
    /\ icpt = NoIcpt

CallOutcomes == {CallFails, CallReturns(ResultTwo), CallReturns(ResultOther)}

InitRetry ==
    /\ InitIdle
    /\ fpc = "submitted"
    /\ \E m \in 1..MaxRetriesBound, b \in {1, DefaultBackoff},
          env \in [1..(MaxRetriesBound + 1) -> CallOutcomes], k \in {1, 2} :
          fin = [max_retries |-> m, backoff |-> b, env |-> env, key |-> k, coll |-> Fresh]
    /\ fout = <<>>

\* the worker: process_single with the drawn max_retries and backoff
RetryWorker ==
    /\ fpc = "submitted"
    /\ LET a == analyze_meme_with_gemini(fin.env, fin.max_retries, fin.backoff)
           p == process_single(fin.coll[fin.key], a.result)
       IN fout' = [analysis |-> a,
                   raised |-> a.raised \/ p.raised,
                   updated |-> p.updated,
                   coll |-> fin.coll]
    /\ fpc' = "finished"
    /\ UNCHANGED <<fin, mainvars>>

\* the dispatcher: the future is yielded by as_completed
RetryCollect ==
    /\ fpc = "finished"
    /\ fout' = [fout EXCEPT !.coll = IF fout.raised THEN MergeFailed(fin.coll, fin.key)
                                     ELSE MergeOk(fin.coll, fin.key, fout.updated)]
    /\ fpc' = "collected"
    /\ UNCHANGED <<fin, mainvars>>

NextRetry == RetryWorker \/ RetryCollect

SpecRetry == InitRetry /\ [][NextRetry]_vars

\* the attempts, among the first max_retries, at which the service answers
Answering == {a \in 1..fin.max_retries : fin.env[a].ok}
FirstAnswer == CHOOSE a \in Answering : \A b \in Answering : a <= b

\* C8: the processor calls the analysis at most max_retries times; when an attempt
\* among them succeeds it returns the result of the first such attempt and has made
\* exactly that many calls; when all fail it raises after max_retries calls, and the
\* dispatcher then leaves the item's record, and the collection, as they were.
C8_BoundedRetry ==
    fpc \in {"finished", "collected"} =>
        /\ fout.analysis.calls <= fin.max_retries
        /\ Answering # {} =>
              /\ ~fout.analysis.raised
              /\ fout.analysis.calls = FirstAnswer
              /\ fout.analysis.result = fin.env[FirstAnswer].result
        /\ Answering = {} =>
              /\ fout.analysis.raised
              /\ fout.raised
              /\ fout.analysis.calls = fin.max_retries
              /\ fpc = "collected" => fout.coll = fin.coll

\* two failed attempts, then a success at the third and last attempt
C8_Witness ==
    /\ fpc = "collected"
    /\ fin.max_retries = 3
    /\ ~fin.env[1].ok /\ ~fin.env[2].ok /\ fin.env[3].ok
    /\ fout.analysis.calls = 3
    /\ ~fout.raised
    /\ Annotated(fout.coll[fin.key])

(***************************************************************************)
(* process_single on a drawn record and a drawn list of text_descriptions. *)
(***************************************************************************)
\* index values the service may return: integers in and out of range, fractions,
\* strings, null, and an entry without index
IndexValues ==
    {JInt(-1), JInt(0), JInt(1), JInt(5), JFloat(1, 2), JFloat(-1, 2),
     JStr(<<"0">>), JStr(<<"x">>), JNull, JMissing}

\* the i-th entry carries the i-th description
DescriptionOf(i) == TStr(<<"A", "B", "C", "D">>[i])

\* an entry with one of the index values, or an entry that is no object
TdChoices == {Td(v, TStr("A")) : v \in IndexValues} \cup {TdOther}

TdLists == UNION {[1..n -> TdChoices] : n \in 0..MaxTds}

Relabel(tds) ==
    [i \in DOMAIN tds |->
        IF tds[i].kind = "dict" THEN [tds[i] EXCEPT !.description = DescriptionOf(i)]
        ELSE tds[i]]

InitProc ==
    /\ InitIdle
    /\ fpc = "returned"
    /\ \E k \in Keys, tds \in TdLists :
          fin = [meme_data |-> ScrapedRecord(k),
                 result |-> ResultDict(TStr("D"), TdList(Relabel(tds)))]
    /\ fout = <<>>

\* process_single once the analysis has returned fin.result
ProcApply ==
    /\ fpc = "returned"
    /\ fout' = process_single(fin.meme_data, fin.result)
    /\ fpc' = "applied"
    /\ UNCHANGED <<fin, mainvars>>

NextProc == ProcApply

SpecProc == InitProc /\ [][NextProc]_vars

\* the entries of the result whose index is the integer j (0-based)
EntriesFor(j) ==
    {i \in DOMAIN fin.result.text_descriptions.items :
        LET td == fin.result.text_descriptions.items[i]
        IN td.kind = "dict" /\ td.index.t = "int" /\ td.index.n = j}

Last(S) == CHOOSE i \in S : \A j \in S : j <= i

\* C9: process_single does not raise; region j's description is overwritten exactly
\* when the result holds an entry whose index is the integer j, 0 <= j <
\* len(text_options), and then with that entry's description (the last such entry);
\* entries with any other index (out of range, negative, missing, not an
\* integer) change nothing.
C9_IndexFiltering ==
    fpc = "applied" =>
        /\ ~fout.raised
        /\ \A j \in DOMAIN fin.meme_data.text_options :
              fout.updated.text_options[j].description =
                  IF EntriesFor(j - 1) = {}
                  THEN fin.meme_data.text_options[j].description
                  ELSE GetText(fin.result.text_descriptions.items[
                                   Last(EntriesFor(j - 1))].description)

(***************************************************************************)
(* scale_boxes_to_original on drawn boxes, canvas sizes and image sizes.   *)
(***************************************************************************)
Coords == (-1)..MaxCoord

\* boxes with integer fields
DrawnBoxes == {Box(l, t, w, h) : l \in Coords, t \in Coords, w \in {1, 3}, h \in {2, 3}}

Transposed(b) == Box(b.top, b.left, b.height, b.width)

\* a list of n boxes: b and its transposition in turn
BoxList(b, n) == [i \in 1..n |-> IF i % 2 = 1 THEN b ELSE Transposed(b)]

\* a dimension read from the page: missing, negative, zero or positive
Dims == {None} \cup {Some(d) : d \in (-1)..MaxDim}

InitScale ==
    /\ InitIdle
    /\ fpc = "measured"
    /\ \E b \in DrawnBoxes, n \in 0..MaxBoxes, cw \in Dims, ch \in Dims,
          ow \in 1..MaxDim, oh \in 1..MaxDim :
          fin = [boxes |-> BoxList(b, n),
                 canvas_size |-> <<cw, ch>>,
                 original_size |-> <<ow, oh>>]
    /\ fout = <<>>

ScaleApply ==
    /\ fpc = "measured"
    /\ fout' = scale_boxes_to_original(fin.boxes, fin.canvas_size, fin.original_size)
    /\ fpc' = "scaled"
    /\ UNCHANGED <<fin, mainvars>>

NextScale == ScaleApply

SpecScale == InitScale /\ [][NextScale]_vars

Abs(x) == IF x < 0 THEN 0 - x ELSE x

\* r is the integer nearest to n/d (d > 0), the even one of the two when n/d lies
\* halfway between two integers
IsRound(r, n, d) ==
    /\ 2 * Abs(r * d - n) <= d
    /\ 2 * Abs(r * d - n) = d => r % 2 = 0

\* C15: scale_boxes_to_original returns as many boxes as it was given, in the same
\* order; with both canvas dimensions present and positive, each field of each box
\* is the field times original/canvas of its axis (width for left and width, height
\* for top and height), rounded to the nearest integer, ties to even, so equal
\* canvas and original sizes give the boxes themselves; with a canvas dimension
\* missing, zero or negative it returns the boxes themselves.
C15_ScaleBox ==
    fpc = "scaled" =>
        LET cw == fin.canvas_size[1]
            ch == fin.canvas_size[2]
            ow == fin.original_size[1]
            oh == fin.original_size[2]
            valid == cw # None /\ ch # None /\ cw[1] > 0 /\ ch[1] > 0
        IN /\ DOMAIN fout = DOMAIN fin.boxes
           /\ \A i \in DOMAIN fin.boxes :
                 IF valid
                 THEN /\ IsRound(fout[i].left, fin.boxes[i].left * ow, cw[1])
                      /\ IsRound(fout[i].top, fin.boxes[i].top * oh, ch[1])
                      /\ IsRound(fout[i].width, fin.boxes[i].width * ow, cw[1])
                      /\ IsRound(fout[i].height, fin.boxes[i].height * oh, ch[1])
                      /\ (cw[1] = ow /\ ch[1] = oh) => fout[i] = fin.boxes[i]
                 ELSE fout[i] = fin.boxes[i]

\* two different boxes scaled by 1/2 horizontally and by 2 vertically, with the
\* ties -1/2 and 3/2 rounded to 0 and 2
C15_Witness ==
    /\ fpc = "scaled"
    /\ fin.canvas_size = <<Some(2), Some(1)>>
    /\ fin.original_size = <<1, 2>>
    /\ fin.boxes = <<Box(-1, 2, 3, 3), Box(2, -1, 3, 3)>>
    /\ fout = <<Box(0, 4, 2, 6), Box(1, -2, 2, 6)>>

(***************************************************************************)
(* update_positions_for_meme on a drawn record, page and image width.      *)
(***************************************************************************)
\* a preview of width 600 with one box, for an image of width 1200
ExamplePage == Page(Some(600), <<Box(5, 10, 50, 15)>>)
ExampleFetch == [ok |-> TRUE, orig_w |-> 1200]

InitUniform ==
    /\ InitIdle
    /\ fpc = "fetched"
    /\ \/ \E k \in Keys, b \in DrawnBoxes, n \in 0..MaxBoxes, pw \in Dims,
             ow \in 1..MaxDim :
             fin = [meme_data |-> ScrapedRecord(k),
                    page |-> Page(pw, BoxList(b, n)),
                    fetch |-> [ok |-> TRUE, orig_w |-> ow]]
       \/ \E k \in Keys :
             fin \in {[meme_data |-> ScrapedRecord(k), page |-> ExamplePage,
                       fetch |-> ExampleFetch],
                      [meme_data |-> ScrapedRecord(k), page |-> NoPage,
                       fetch |-> ExampleFetch],
                      [meme_data |-> ScrapedRecord(k), page |-> ExamplePage,
                       fetch |-> [ok |-> FALSE, orig_w |-> 0]]}
    /\ fout = <<>>

PositionApply ==
    /\ fpc = "fetched"
    /\ fout' = update_positions_for_meme(fin.meme_data, fin.page, fin.fetch)
    /\ fpc' = "positioned"
    /\ UNCHANGED <<fin, mainvars>>

NextUniform == PositionApply

SpecUniform == InitUniform /\ [][NextUniform]_vars

\* the page was extracted and the image fetched
Measured == fin.page.ok /\ fin.fetch.ok

\* the regions of the record for which the page holds a box
Zipped == 1..Min(Len(fin.page.boxes), Len(fin.meme_data.text_options))

C17_InvalidPreview ==
    (/\ fpc = "positioned"
     /\ Measured
     /\ (fin.page.preview_width = None \/ fin.page.preview_width[1] <= 0)) =>
        /\ fout.raised
        /\ fout.updated = fin.meme_data
        /\ ~Positioned(fout.updated)
        /\ \A i \in DOMAIN fout.updated.text_options :
              fout.updated.text_options[i].updated_position = None

(***************************************************************************)
(* Runs that are not terminated from outside, with writes that may fail.   *)
(***************************************************************************)
\* the write of the backup raises at its first step, the open of the temporary
\* file: main ends with the exception.  (What a write interrupted at a later step
\* leaves in the files is what Crash leaves.)
BackupFails ==
    /\ pc = "backup_open"
    /\ pc' = "backup_failed"
    /\ UNCHANGED <<fvars, files, runs, stage, memes, pending, start,
                   workers, counters, loadres, history>>

\* the write of a checkpoint raises at its first step: the dispatcher ends with
\* the exception
SaveFails ==
    /\ pc = "save_open"
    /\ pc' = "save_failed"
    /\ UNCHANGED <<fvars, files, runs, stage, memes, pending, start,
                   workers, counters, loadres, history>>

\* a step of the dispatcher or of one of its workers
Step ==
    \/ BackupOpen
    \/ BackupDump
    \/ BackupRename
    \/ Submit
    \/ \E k \in Keys : EWorker(k)
    \/ \E k \in Keys : PWorker(k)
    \/ \E k \in Keys : ECollect(k)
    \/ \E k \in Keys : PCollect(k)
    \/ EBatchEnd
    \/ PMerge
    \/ SaveOpen
    \/ SaveDump
    \/ SaveRename
    \/ Finish

NextLive ==
    \/ EStart
    \/ PStart
    \/ Step
    \/ BackupFails
    \/ SaveFails

\* the dispatcher thread keeps running and every call a worker makes returns
SpecLive == Init /\ [][NextLive]_vars /\ WF_vars(Step)

Running == pc \notin Ended \cup {"idle"}

AbnormalEnd == pc \in Ended \ {"done"}

\* C18 as stated: every run reaches its end, and a run ends otherwise than with its
\* final report only when the load raised or a checkpoint write failed.
C18_Stated ==
    /\ Running ~> (pc \in Ended)
    /\ [](AbnormalEnd => (loadres = "raised" \/ pc = "save_failed"))

\* C18: every run, whatever items fail, reaches its end, and a run ends otherwise
\* than with its final report only when the load raised, the write of the backup
\* failed or a checkpoint write failed.
C18_Termination ==
    /\ Running ~> (pc \in Ended)
    /\ [](AbnormalEnd =>
            (loadres = "raised" \/ pc = "backup_failed" \/ pc = "save_failed"))

\* an enrichment run of two batches that reached its final report with every item
\* failed
C18_Witness ==
    /\ stage = "enrich"
    /\ pc = "done"
    /\ Len(pending) > BatchSize
    /\ saves = 2
    /\ failures = Len(pending)
    /\ \A i \in DOMAIN pending : wstate[pending[i]] = "failed"

(***************************************************************************)
(* The retry loop of analyze_meme_with_gemini step by step: each call of   *)
(* the service and each sleep is a step, recorded in order.                *)
(***************************************************************************)
\* a sleep of the same length after every failure
sleep_seconds_fixed(backoff_seconds, attempt) == backoff_seconds

\* sleep_seconds = backoff_seconds * (2 ** (attempt - 1))
sleep_seconds(backoff_seconds, attempt) == backoff_seconds * Pow2(attempt - 1)

CallEvent(attempt, ok) == [kind |-> "call", ok |-> ok, v |-> attempt]
SleepEvent(seconds) == [kind |-> "sleep", ok |-> TRUE, v |-> seconds]

InitBackoff ==
    /\ InitIdle
    /\ fpc = "calling"
    /\ \E m \in 1..MaxRetriesBound, b \in {1, DefaultBackoff},
          env \in [1..MaxRetriesBound -> CallOutcomes] :
          fin = [max_retries |-> m, backoff |-> b, env |-> env]
    /\ fout = [attempt |-> 1, events |-> <<>>]

\* the body of the try: generate_content and json.loads; on an exception, raise at
\* the last attempt and go on to the sleep otherwise
BackoffCall ==
    /\ fpc = "calling"
    /\ LET attempt == fout.attempt
       IN IF attempt > fin.max_retries
          THEN /\ fpc' = "raised"                \* range exhausted
               /\ UNCHANGED fout
          ELSE /\ fout' = [fout EXCEPT
                               !.events = Append(@, CallEvent(attempt, fin.env[attempt].ok))]
               /\ fpc' = IF fin.env[attempt].ok THEN "returned"
                         ELSE IF attempt = fin.max_retries THEN "raised"
                         ELSE "sleeping"
    /\ UNCHANGED <<fin, mainvars>>

\* time.sleep(sleep_seconds), then the next attempt
BackoffSleep ==
    /\ fpc = "sleeping"
    /\ fout' = [attempt |-> fout.attempt + 1,
                events |-> Append(fout.events,
                                  SleepEvent(sleep_seconds(fin.backoff, fout.attempt)))]
    /\ fpc' = "calling"
    /\ UNCHANGED <<fin, mainvars>>

NextBackoff == BackoffCall \/ BackoffSleep

SpecBackoff == InitBackoff /\ [][NextBackoff]_vars

RECURSIVE SumSeq(_)
SumSeq(q) == IF q = <<>> THEN 0 ELSE Head(q) + SumSeq(Tail(q))

\* the lengths of the sleeps taken so far, in order
Sleeps == LET sl == SelectSeq(fout.events, LAMBDA e : e.kind = "sleep")
          IN [i \in DOMAIN sl |-> sl[i].v]

\* C22: the loop's steps are call, sleep, call, sleep, ..., starting with a call;
\* the j-th sleep follows the failed attempt j, j < max_retries, and lasts
\* backoff for j = 1 and twice the previous sleep otherwise (backoff * 2^(j-1));
\* the loop ends right after a call, the successful one or the failed attempt
\* max_retries, so with max_retries failures it has slept
\* backoff * (2^(max_retries-1) - 1) in all, and with two failures and a success
\* at the third attempt backoff + 2 * backoff; the sleeps are those the one-step
\* rendering of the loop (RetryLoop) gives.
C22_BackoffSchedule ==
    LET ev == fout.events
        n == Len(ev)
    IN /\ \A i \in 1..n :
             IF i % 2 = 1
             THEN ev[i].kind = "call" /\ ev[i].v = (i + 1) \div 2
             ELSE /\ ev[i].kind = "sleep"
                  /\ ev[i - 1].kind = "call" /\ ~ev[i - 1].ok
                  /\ i \div 2 < fin.max_retries
                  /\ ev[i].v = IF i = 2 THEN fin.backoff ELSE 2 * ev[i - 2].v
       /\ \A i \in 1..(n - 1) : ev[i].kind = "call" => ~ev[i].ok
       /\ fpc = "sleeping" => (n > 0 /\ ev[n].kind = "call" /\ ~ev[n].ok)
       /\ fpc = "returned" => (ev[n].kind = "call" /\ ev[n].ok)
       /\ fpc = "raised" =>
             /\ ev[n] = CallEvent(fin.max_retries, FALSE)
             /\ SumSeq(Sleeps) = fin.backoff * (Pow2(fin.max_retries - 1) - 1)
       /\ (fpc = "returned" /\ ev[n].v = 3) => SumSeq(Sleeps) = fin.backoff + 2 * fin.backoff
       /\ fpc \in {"returned", "raised"} =>
             LET a == analyze_meme_with_gemini(fin.env, fin.max_retries, fin.backoff)
             IN /\ a.raised = (fpc = "raised")
                /\ a.sleeps = Sleeps
                /\ a.calls = (n + 1) \div 2

\* two failures and a success at the third of three attempts, with the default
\* backoff: sleeps of 2 and 4
C22_Witness ==
    /\ fpc = "returned"
    /\ fin.max_retries = 3
    /\ fin.backoff = DefaultBackoff
    /\ Len(fout.events) = 5
    /\ Sleeps = <<2, 4>>

=============================================================================
